---- MODULE Spec2Model ----
(***************************************************************************)
(* Client-side synchronisation engine of wifenote: the zustand store       *)
(* (ui/src/store/tldraw.ts), the drop handler of FolderView.tsx, the push  *)
(* channel handler of App.tsx, and the remote authority they talk to.      *)
(*                                                                         *)
(* One action is one scheduling turn of the single-threaded event loop:    *)
(* everything a handler does between two awaits happens in one step.       *)
(***************************************************************************)
EXTENDS Integers, Sequences, FiniteSets, TLC

(* ------------------------------ bounds -------------------------------- *)
NumFolders == 3
NumNotes == 1
MaxInFlight == 2
MaxPush == 1
MaxOps == 2

(* ------------------------------ values -------------------------------- *)
Null == 0
Undefined == 0 - 1
FolderIds == 1..NumFolders
NoteIds == 101..(100 + NumNotes)
Names == {"a", "b"}
Nodes == {"p", "q"}
NoError == "null"

VARIABLES
  folders,               \* store.folders : TlDrawFolder[]
  notes,                 \* store.notes : TlDrawNote[]
  currentNote,           \* store.currentNote (Undefined when not set)
  isLoading,             \* store.isLoading
  error,                 \* store.error (NoError is null)
  collaborationInvites,  \* store.collaborationInvites : Invite[]
  srvFolders,            \* remote authority: ApiFolder list
  srvNotes,              \* remote authority: ApiNote list
  srvInvites,            \* remote authority: pending invites for this node
  ops,                   \* suspended async operations (awaiting a response)
  pushq,                 \* messages in flight on the push channel
  issued                 \* number of operations issued so far

vars == <<folders, notes, currentNote, isLoading, error, collaborationInvites,
          srvFolders, srvNotes, srvInvites, ops, pushq, issued>>

storeVars == <<folders, notes, currentNote, isLoading, error, collaborationInvites>>
srvVars == <<srvFolders, srvNotes, srvInvites>>

(* --------------------------- sequence helpers -------------------------- *)
Range(s) == {s[i] : i \in DOMAIN s}

\* Array.prototype.find: the first element satisfying the test, or Undefined
FirstIndex(s, Test(_)) ==
  IF \E i \in DOMAIN s : Test(s[i])
  THEN CHOOSE i \in DOMAIN s : Test(s[i]) /\ \A j \in 1..(i - 1) : ~Test(s[j])
  ELSE 0

\* property read of a JavaScript object: undefined when the key is absent
Get(r, k) == IF k \in DOMAIN r THEN r[k] ELSE Undefined

\* { ...r, k: v }
With(r, k, v) == [x \in (DOMAIN r) \cup {k} |-> IF x = k THEN v ELSE r[x]]

Ids(s) == {s[i].id : i \in DOMAIN s}

(* --------------------------- entity shapes ----------------------------- *)
\* TlDrawFolder: 'parent-id' is written parentId
TlDrawFolder(id, name, parentId) == [id |-> id, name |-> name, parentId |-> parentId]

\* ApiFolder
ApiFolder(id, name, parent) == [id |-> id, name |-> name, parent_id |-> parent]

\* ApiNote
ApiNote(id, name, folder, pub, collab) ==
  [id |-> id, name |-> name, folder_id |-> folder, content |-> <<>>,
   note_type |-> "Tldraw", is_public |-> pub, collaborators |-> collab]

\* the transform of App.tsx applied to one wire folder / note
transformFolder(f) == [id |-> f.id, name |-> f.name, parentId |-> f.parent_id]

\* a transform that passes the wire note through
transformNoteWire(n) == n

transformNote(n) ==
  [id |-> n.id, name |-> n.name, folderId |-> n.folder_id, content |-> n.content,
   type |-> n.note_type, isPublic |-> n.is_public, collaborators |-> n.collaborators]

transformedFolders(fs) == [i \in DOMAIN fs |-> transformFolder(fs[i])]

transformedNotes(ns) == [i \in DOMAIN ns |-> transformNote(ns[i])]

(* ------------------------- store: pure updates ------------------------- *)
\* a move that also resets the note's content
moveNoteApplyReset(ns, id, folderId) ==
  [i \in DOMAIN ns |->
     IF ns[i].id = id
     THEN With(With(ns[i], "folderId", folderId), "content", <<"reset">>)
     ELSE ns[i]]

\* notes.map(note => note.id === id ? { ...note, 'folder-id': folderId } : note)
moveNoteApply(ns, id, folderId) ==
  [i \in DOMAIN ns |-> IF ns[i].id = id THEN With(ns[i], "folderId", folderId) ELSE ns[i]]

\* a rename that inserts the note when no note has the id
renameNoteUpsert(ns, id, name) ==
  IF id \in Ids(ns) THEN [i \in DOMAIN ns |-> IF ns[i].id = id THEN With(ns[i], "name", name) ELSE ns[i]]
  ELSE Append(ns, [id |-> id, name |-> name, folderId |-> Null, content |-> <<>>,
                   type |-> "Tldraw", isPublic |-> FALSE, collaborators |-> {}])

\* notes.map(note => note.id === id ? { ...note, name } : note)
renameNoteApply(ns, id, name) ==
  [i \in DOMAIN ns |-> IF ns[i].id = id THEN With(ns[i], "name", name) ELSE ns[i]]

\* folders.map(folder => folder.id === id ? { ...folder, 'parent-id': parentId } : folder)
moveFolderApply(fs, id, parentId) ==
  [i \in DOMAIN fs |-> IF fs[i].id = id THEN With(fs[i], "parentId", parentId) ELSE fs[i]]

\* a rename that writes the name into every folder
renameFolderApplyAll(fs, id, name) == [i \in DOMAIN fs |-> With(fs[i], "name", name)]

\* folders.map(folder => folder.id === id ? { ...folder, name } : folder)
renameFolderApply(fs, id, name) ==
  [i \in DOMAIN fs |-> IF fs[i].id = id THEN With(fs[i], "name", name) ELSE fs[i]]

\* folders.filter(folder => folder.id !== id)
deleteFolderApply(fs, id) == SelectSeq(fs, LAMBDA f : f.id # id)

\* notes: [...state.notes, newNote]
acceptInviteNotes(ns, newNote) == Append(ns, newNote)

\* an accept that leaves the invite list as it is
acceptInviteInvitesKept(inv, noteId) == inv

\* collaborationInvites.filter(invite => invite.note_id !== noteId)
acceptInviteInvites(inv, noteId) == SelectSeq(inv, LAMBDA v : v.note_id # noteId)

\* a delete that removes nothing
deleteNoteApplyNone(ns, id) == ns

\* notes.filter(note => note.id !== id)
deleteNoteApply(ns, id) == SelectSeq(ns, LAMBDA n : n.id # id)

\* notes.map(note => note.id === noteId ? { ...note, isPublic } : note)
setNotePublicApply(ns, noteId, isPublic) ==
  [i \in DOMAIN ns |-> IF ns[i].id = noteId THEN With(ns[i], "isPublic", isPublic) ELSE ns[i]]

\* a replacement that keeps the note the store holds
replaceNoteApplyKept(ns, noteId, updatedNote) == ns

\* notes.map(note => note.id === noteId ? updatedNote : note)
replaceNoteApply(ns, noteId, updatedNote) ==
  [i \in DOMAIN ns |-> IF ns[i].id = noteId THEN updatedNote ELSE ns[i]]

\* rejectInvite: collaborationInvites.filter(invite => invite.note_id !== noteId)
rejectInviteInvites(inv, noteId) == SelectSeq(inv, LAMBDA v : v.note_id # noteId)

\* get().folders.filter(folder => folder['parent-id'] === parentId)
getChildFolders(fs, parentId) == SelectSeq(fs, LAMBDA f : Get(f, "parentId") = parentId)

\* a query that also returns the notes at the root
getChildNotesWithRoot(ns, folderId) ==
  SelectSeq(ns, LAMBDA n : Get(n, "folderId") \in {folderId, Null})

\* get().notes.filter(note => note['folder-id'] === folderId)
getChildNotes(ns, folderId) == SelectSeq(ns, LAMBDA n : Get(n, "folderId") = folderId)

(* ----------------------- the local ancestor check ---------------------- *)
\* findParentChain: the set of ancestors of currentId, or Diverges when the
\* recursion never returns (the walk re-enters a folder it already added, and
\* the engine ends it with a RangeError).
Diverges == {Undefined}

RECURSIVE findParentChain(_, _, _)
findParentChain(fs, currentId, chain) ==
  LET i == FirstIndex(fs, LAMBDA f : f.id = currentId) IN
  IF i = 0 \/ fs[i].parentId = Null THEN chain
  ELSE IF fs[i].parentId \in chain THEN Diverges
  ELSE findParentChain(fs, fs[i].parentId, chain \cup {fs[i].parentId})

\* the check with its arguments exchanged: walks up from the dragged folder
isFolderDescendantSwapped(fs, folderId, targetId) ==
  LET chain == findParentChain(fs, folderId, {}) IN
  IF chain = Diverges THEN "throws"
  ELSE IF targetId \in chain THEN "true" ELSE "false"

\* isFolderDescendant(folderId, targetId): "true" | "false" | "throws"
isFolderDescendant(fs, folderId, targetId) ==
  LET chain == findParentChain(fs, targetId, {}) IN
  IF chain = Diverges THEN "throws"
  ELSE IF folderId \in chain THEN "true" ELSE "false"

\* FolderView.tsx: !targetFolderId || !isFolderDescendant(dragging.id, targetFolderId)
isValidMove(fs, draggingId, targetFolderId) ==
  IF targetFolderId = Null THEN "true"
  ELSE LET d == isFolderDescendant(fs, draggingId, targetFolderId) IN
       IF d = "throws" THEN "throws" ELSE IF d = "true" THEN "false" ELSE "true"

\* later revision of the handler:
\* !(targetFolderId === dragging.id || (targetFolderId && isFolderDescendant(...)))
isValidMoveRev(fs, draggingId, targetFolderId) ==
  IF targetFolderId = draggingId THEN "false"
  ELSE isValidMove(fs, draggingId, targetFolderId)

(* --------------------------- remote authority -------------------------- *)
NoData == [none |-> TRUE]

Invite(noteId, inviter, name) ==
  [note_id |-> noteId, inviter_node_id |-> inviter, note_name |-> name]

\* the note a pending invite offers; it is not in the structure until accepted
SharedNoteId == 100 + NumNotes + 1

RECURSIVE srvAncestors(_, _, _)
srvAncestors(fs, id, fuel) ==
  LET i == FirstIndex(fs, LAMBDA f : f.id = id) IN
  IF fuel = 0 \/ i = 0 \/ fs[i].parent_id = Null THEN {}
  ELSE {fs[i].parent_id} \cup srvAncestors(fs, fs[i].parent_id, fuel - 1)

\* the structure is referentially consistent, acyclic and has unique ids
srvConsistent(fs, ns) ==
  /\ \A i, j \in DOMAIN fs : fs[i].id = fs[j].id => i = j
  /\ \A i, j \in DOMAIN ns : ns[i].id = ns[j].id => i = j
  /\ \A i \in DOMAIN fs : fs[i].parent_id \in {Null} \cup Ids(fs)
  /\ \A i \in DOMAIN fs : fs[i].id \notin srvAncestors(fs, fs[i].id, Len(fs))
  /\ \A i \in DOMAIN ns : ns[i].folder_id \in {Null} \cup Ids(fs)

\* the id the authority assigns to a folder it creates
NewFolderId == NumFolders + 1

\* the id the authority gives to a note it creates
NewNoteId == 100 + NumNotes + 2

\* the structure after the authority executes a request
srvApplyFolders(fs, kind, id, arg, name) ==
  CASE kind = "MoveFolder" ->
         [i \in DOMAIN fs |-> IF fs[i].id = id THEN [fs[i] EXCEPT !.parent_id = arg] ELSE fs[i]]
    [] kind = "RenameFolder" ->
         [i \in DOMAIN fs |-> IF fs[i].id = id THEN [fs[i] EXCEPT !.name = name] ELSE fs[i]]
    [] kind = "DeleteFolder" -> SelectSeq(fs, LAMBDA f : f.id # id)
    [] kind = "CreateFolder" -> Append(fs, ApiFolder(NewFolderId, name, Null))
    [] OTHER -> fs

srvApplyNotes(ns, kind, id, arg, name) ==
  CASE kind = "MoveNote" ->
         [i \in DOMAIN ns |-> IF ns[i].id = id THEN [ns[i] EXCEPT !.folder_id = arg] ELSE ns[i]]
    [] kind = "RenameNote" ->
         [i \in DOMAIN ns |-> IF ns[i].id = id THEN [ns[i] EXCEPT !.name = name] ELSE ns[i]]
    [] kind = "DeleteNote" -> SelectSeq(ns, LAMBDA n : n.id # id)
    [] kind = "AcceptInvite" -> Append(ns, ApiNote(id, "a", Null, FALSE, {name}))
    [] kind = "CreateNote" -> Append(ns, ApiNote(NewNoteId, name, Null, FALSE, {}))
    [] kind = "InviteCollaborator" ->
         [i \in DOMAIN ns |->
            IF ns[i].id = id
            THEN [ns[i] EXCEPT !.collaborators = ns[i].collaborators \cup {name}]
            ELSE ns[i]]
    [] kind = "RemoveCollaborator" ->
         [i \in DOMAIN ns |->
            IF ns[i].id = id
            THEN [ns[i] EXCEPT !.collaborators = ns[i].collaborators \ {name}]
            ELSE ns[i]]
    [] OTHER -> ns

\* the authority executes SetNotePublic [id, flag]
srvSetNotePublic(ns, id, flag) ==
  [i \in DOMAIN ns |-> IF ns[i].id = id THEN [ns[i] EXCEPT !.is_public = flag] ELSE ns[i]]

srvApplyInvites(inv, kind, id, name) ==
  IF kind \in {"AcceptInvite", "RejectInvite"}
  THEN SelectSeq(inv, LAMBDA v : ~(v.note_id = id /\ v.inviter_node_id = name))
  ELSE inv

\* The authority executes a request when the entities it names exist. It is
\* authoritative for persistence only: it does not test a move for cycles.
srvAccepts(kind, id, arg, name) ==
  CASE kind = "MoveFolder" -> id \in Ids(srvFolders) /\ arg \in {Null} \cup Ids(srvFolders)
    [] kind = "RenameFolder" -> id \in Ids(srvFolders)
    [] kind = "DeleteFolder" -> id \in Ids(srvFolders)
    [] kind = "CreateFolder" -> NewFolderId \notin Ids(srvFolders)
    [] kind = "CreateNote" -> NewNoteId \notin Ids(srvNotes)
    [] kind = "MoveNote" -> id \in Ids(srvNotes) /\ arg \in {Null} \cup Ids(srvFolders)
    [] kind \in {"RenameNote", "DeleteNote", "SetNotePublic", "InviteCollaborator",
                 "RemoveCollaborator"} ->
         id \in Ids(srvNotes)
    [] kind \in {"AcceptInvite", "RejectInvite"} ->
         \E i \in DOMAIN srvInvites :
           srvInvites[i].note_id = id /\ srvInvites[i].inviter_node_id = name
    [] OTHER -> TRUE

\* a push-channel message carrying the full structure
StructureMsg(fs, ns) == [tag |-> "GetStructure", variant |-> "Ok", folders |-> fs, notes |-> ns]

(* ------------------------- suspended operations ------------------------ *)
\* an async operation suspended at an await: pc = "fetch" while the request is
\* on its way, "reply" once the response is ready to resume the operation.
\* arg is the id argument (new parent / folder), name the string argument
\* (new name, or the inviter's node id).
Op(kind, id, arg, name, via, found) ==
  [seq |-> issued + 1, kind |-> kind, id |-> id, arg |-> arg, name |-> name,
   via |-> via, found |-> found, pc |-> "fetch", resp |-> "none", data |-> NoData]

\* the request an operation has on the wire
Request(kind) ==
  CASE kind \in {"dropFolder", "moveFolder"} -> "MoveFolder"
    [] kind \in {"dropNote", "moveNote"} -> "MoveNote"
    [] kind = "renameFolder" -> "RenameFolder"
    [] kind = "renameNote" -> "RenameNote"
    [] kind = "acceptInvite" -> "AcceptInvite"
    [] kind = "deleteNote" -> "DeleteNote"
    [] kind = "setNotePublic" -> "SetNotePublic"
    [] kind = "inviteCollaborator" -> "InviteCollaborator"
    [] kind = "getInvites" -> "GetInvites"
    [] kind = "rejectInvite" -> "RejectInvite"
    [] kind = "removeCollaborator" -> "RemoveCollaborator"
    [] kind \in {"createFolder", "createFolderView"} -> "CreateFolder"
    [] kind \in {"createNote", "createNoteView"} -> "CreateNote"
    [] OTHER -> "GetStructure"

CanIssue == issued < MaxOps /\ Cardinality(ops) < MaxInFlight

(* ------------------------------- Init ---------------------------------- *)
\* structures the authority may hold when the client starts: a chain
\* 1 <- 2 <- ... <- NumFolders, or folder 2 under folder 1 and the rest roots
InitParents ==
  { [i \in FolderIds |-> i - 1],
    [i \in FolderIds |-> IF i = 2 THEN 1 ELSE Null] }

InitFolders == { [i \in FolderIds |-> ApiFolder(i, "a", p[i])] : p \in InitParents }

InitNotes ==
  { [i \in 1..NumNotes |-> ApiNote(100 + i, "a", f, FALSE, {})] : f \in {Null, 2} }

\* the store as constructed by create(), the initial GetStructure on the wire
Init ==
  /\ folders = <<>>
  /\ notes = <<>>
  /\ currentNote = <<>>
  /\ isLoading = FALSE
  /\ error = NoError
  /\ collaborationInvites = <<>>
  /\ srvFolders \in InitFolders
  /\ srvNotes \in InitNotes
  /\ srvInvites = <<Invite(SharedNoteId, "p", "a")>>
  /\ ops = {[seq |-> 0, kind |-> "load", id |-> Null, arg |-> Null, name |-> "",
             via |-> "App", found |-> FALSE, pc |-> "fetch", resp |-> "none",
             data |-> NoData]}
  /\ pushq = <<>>
  /\ issued = 0

(* --------------------- FolderView.tsx: handleDrop ---------------------- *)
\* The synchronous part of handleDrop up to its first await. valid is the
\* outcome of the handler's local check ("true", "false" or "throws").
\* A rejected folder drop calls setError and returns; an accepted drop posts
\* the Move request itself (the store is not touched before the response).
\* found is the handler's closure lookup folders.find / notes.find.
dropStep(type, id, targetFolderId, valid) ==
  /\ CanIssue
  /\ targetFolderId \in {Null} \cup Ids(folders)
  /\ id \in (IF type = "folder" THEN Ids(folders) ELSE Ids(notes))
  /\ issued' = issued + 1
  /\ IF valid = "true"
     THEN /\ ops' = ops \cup
                {Op(IF type = "folder" THEN "dropFolder" ELSE "dropNote",
                    id, targetFolderId, "", "handleDrop",
                    IF type = "folder" THEN \E i \in DOMAIN folders : folders[i].id = id
                    ELSE \E i \in DOMAIN notes : notes[i].id = id)}
          /\ error' = error
     ELSE /\ ops' = ops
          /\ error' = IF valid = "false"
                      THEN "Cannot move a folder into itself or its children"
                      ELSE "Maximum call stack size exceeded"
  /\ UNCHANGED <<folders, notes, currentNote, isLoading, collaborationInvites,
                 srvVars, pushq>>

\* handleDrop of ui/src/components/FolderView.tsx
handleDrop(type, id, targetFolderId) ==
  dropStep(type, id, targetFolderId,
           IF type = "note" THEN "true" ELSE isValidMove(folders, id, targetFolderId))

\* handleDrop of the revised FolderView (explicit targetFolderId === dragging.id test)
handleDropRev(type, id, targetFolderId) ==
  dropStep(type, id, targetFolderId,
           IF type = "note" THEN "true" ELSE isValidMoveRev(folders, id, targetFolderId))

\* handleDrop resumes after its own fetch: response.ok decides; on success it
\* calls the store's moveFolder / moveNote, which runs up to its apiCall await
\* (set isLoading, clear error, post the request a second time).
handleDropResume(o) ==
  /\ o \in ops /\ o.pc = "reply" /\ o.kind \in {"dropFolder", "dropNote"}
  /\ IF o.resp \in {"Throw", "Status"}
     THEN /\ ops' = ops \ {o}
          /\ error' = IF o.resp = "Throw" THEN "Failed to fetch"
                      ELSE IF o.kind = "dropFolder" THEN "Failed to move folder"
                      ELSE "Failed to move note"
          /\ isLoading' = isLoading
     ELSE IF o.found
     THEN /\ ops' = (ops \ {o}) \cup
                {[o EXCEPT !.kind = IF o.kind = "dropFolder" THEN "moveFolder" ELSE "moveNote",
                           !.pc = "fetch", !.resp = "none", !.data = NoData]}
          /\ isLoading' = TRUE
          /\ error' = NoError
     ELSE /\ ops' = ops \ {o}
          /\ UNCHANGED <<isLoading, error>>
  /\ UNCHANGED <<folders, notes, currentNote, collaborationInvites, srvVars, pushq, issued>>

(* ------------------------ store: async operations ---------------------- *)
\* the part of a store operation before its await apiCall(...):
\* set({ isLoading: true, error: null }) and the request on the wire
storeCall(kind, id, arg, name) ==
  /\ CanIssue
  /\ issued' = issued + 1
  /\ ops' = ops \cup {Op(kind, id, arg, name, "ui", TRUE)}
  /\ isLoading' = TRUE
  /\ error' = NoError
  /\ UNCHANGED <<folders, notes, currentNote, collaborationInvites, srvVars, pushq>>

renameFolder(id, name) == id \in Ids(folders) /\ storeCall("renameFolder", id, Null, name)

renameNote(id, name) == id \in Ids(notes) /\ storeCall("renameNote", id, Null, name)

acceptInvite(noteId, inviterNodeId) ==
  storeCall("acceptInvite", noteId, Null, inviterNodeId)

deleteNote(id) == id \in Ids(notes) /\ storeCall("deleteNote", id, Null, "")

inviteCollaborator(noteId, nodeId) ==
  noteId \in Ids(notes) /\ storeCall("inviteCollaborator", noteId, Null, nodeId)

getInvites == storeCall("getInvites", Null, Null, "")

removeCollaborator(noteId, nodeId) ==
  noteId \in Ids(notes) /\ storeCall("removeCollaborator", noteId, Null, nodeId)

\* rejectInvite(noteId, inviterNodeId), called for an invite on display
rejectInvite(noteId, inviterNodeId) ==
  /\ \E i \in DOMAIN collaborationInvites :
       /\ collaborationInvites[i].note_id = noteId
       /\ collaborationInvites[i].inviter_node_id = inviterNodeId
  /\ storeCall("rejectInvite", noteId, Null, inviterNodeId)

\* setNotePublic(noteId, isPublic): the operation keeps its boolean argument
setNotePublic(noteId, isPublic) ==
  /\ CanIssue
  /\ noteId \in Ids(notes)
  /\ issued' = issued + 1
  /\ ops' = ops \cup {With(Op("setNotePublic", noteId, Null, "", "ui", TRUE), "flag", isPublic)}
  /\ isLoading' = TRUE
  /\ error' = NoError
  /\ UNCHANGED <<folders, notes, currentNote, collaborationInvites, srvVars, pushq>>

\* setCurrentNote(note), called with a note of the list on display
setCurrentNote(noteId) ==
  /\ \E i \in DOMAIN notes : notes[i].id = noteId /\ currentNote' = <<notes[i]>>
  /\ currentNote' # currentNote
  /\ UNCHANGED <<folders, notes, isLoading, error, collaborationInvites, srvVars, ops,
                 pushq, issued>>

\* a response test that also takes an Err body where no payload is read
responseOkLax(o) == o.resp = "Ok" \/ (o.resp = "Err" /\ o.kind = "setNotePublic")

\* response.X?.Ok of operation o: the body is the success variant (its
\* payload is an object)
responseOk(o) == o.resp = "Ok"

\* a catch that never fires
apiCallNeverThrows(resp) == FALSE

\* apiCall returns response.json() whatever the status and whatever the variant;
\* it throws only when fetch rejects (or the body is not JSON)
apiCallThrows(resp) == resp = "Throw"

FailedTo(kind) ==
  CASE kind = "moveFolder" -> "Failed to move folder"
    [] kind = "moveNote" -> "Failed to move note"
    [] kind = "renameFolder" -> "Failed to rename folder"
    [] kind = "renameNote" -> "Failed to rename note"
    [] kind = "acceptInvite" -> "Failed to accept invite"
    [] kind = "deleteNote" -> "Failed to delete note"
    [] kind = "setNotePublic" -> "Failed to update note visibility"
    [] kind = "inviteCollaborator" -> "Failed to invite collaborator"
    [] kind = "getInvites" -> "Failed to fetch invites"
    [] kind = "rejectInvite" -> "Failed to reject invite"
    [] kind = "removeCollaborator" -> "Failed to remove collaborator"
    [] OTHER -> "Failed"

\* what the try block of the operation does to folders once apiCall returned
resumeFolders(o) ==
  CASE o.kind = "moveFolder" -> moveFolderApply(folders, o.id, o.arg)
    [] o.kind = "renameFolder" -> renameFolderApply(folders, o.id, o.name)
    [] OTHER -> folders

\* ... and to notes
resumeNotes(o) ==
  CASE o.kind = "moveNote" -> moveNoteApply(notes, o.id, o.arg)
    [] o.kind = "renameNote" -> renameNoteApply(notes, o.id, o.name)
    [] o.kind = "acceptInvite" /\ o.resp = "Ok" -> acceptInviteNotes(notes, o.data.note)
    [] o.kind = "deleteNote" -> deleteNoteApply(notes, o.id)
    [] o.kind = "setNotePublic" /\ responseOk(o) -> setNotePublicApply(notes, o.id, o.flag)
    [] o.kind \in {"inviteCollaborator", "removeCollaborator"} /\ responseOk(o) ->
         replaceNoteApply(notes, o.id, o.data.note)
    [] OTHER -> notes

\* ... and to collaborationInvites
resumeInvites(o) ==
  IF o.kind = "acceptInvite" /\ o.resp = "Ok"
  THEN acceptInviteInvites(collaborationInvites, o.id)
  ELSE IF o.kind = "getInvites" /\ responseOk(o)
  THEN o.data.invites
  ELSE IF o.kind = "rejectInvite"
  THEN rejectInviteInvites(collaborationInvites, o.id)
  ELSE collaborationInvites

\* the continuation of a store operation after await apiCall(...): the try
\* block's set(...) or the catch block's set({error}), then finally
\* set({ isLoading: false }). Called from handleDrop, the rethrown error
\* reaches handleDrop's catch, which overwrites error with err.message.
storeResume(o) ==
  /\ o \in ops /\ o.pc = "reply"
  /\ o.kind \in {"moveFolder", "moveNote", "renameFolder", "renameNote", "acceptInvite",
                 "deleteNote", "setNotePublic", "inviteCollaborator", "getInvites",
                 "rejectInvite", "removeCollaborator"}
  /\ ops' = ops \ {o}
  /\ isLoading' = FALSE
  /\ IF apiCallThrows(o.resp)
     THEN /\ error' = IF o.via = "handleDrop" THEN "Failed to fetch" ELSE FailedTo(o.kind)
          /\ UNCHANGED <<folders, notes, collaborationInvites>>
     ELSE /\ folders' = resumeFolders(o)
          /\ notes' = resumeNotes(o)
          /\ collaborationInvites' = resumeInvites(o)
          /\ error' = error
  /\ UNCHANGED <<currentNote, srvVars, pushq, issued>>

\* deleteFolder: synchronous, local only
deleteFolder(id) ==
  /\ issued < MaxOps
  /\ id \in Ids(folders)
  /\ issued' = issued + 1
  /\ folders' = deleteFolderApply(folders, id)
  /\ UNCHANGED <<notes, currentNote, isLoading, error, collaborationInvites,
                 srvVars, ops, pushq>>

(* ------------------ FolderView: handleCreateFolder --------------------- *)
\* a loading flag that stays raised
setLoadingStuck(loading) == isLoading' = TRUE

\* setLoading = (loading) => setStore({ isLoading: loading })
setLoading(loading) == isLoading' = loading

\* handleCreateFolder (revised FolderView) up to its first await:
\* setError(null), setLoading(true), the CreateFolder request on the wire
handleCreateFolder ==
  /\ CanIssue
  /\ issued' = issued + 1
  /\ ops' = ops \cup {Op("createFolder", Null, Null, "New Folder", "handleCreateFolder", TRUE)}
  /\ error' = NoError
  /\ setLoading(TRUE)
  /\ UNCHANGED <<folders, notes, currentNote, collaborationInvites, srvVars, pushq>>

\* handleCreateFolder resumes after one of its two fetches. After CreateFolder:
\* a non-success status throws, an Ok variant goes on to request the
\* structure, anything else falls through. After GetStructure: an Ok variant
\* is transformed and handed to setStructure. The catch calls setError, the
\* finally setLoading(false).
handleCreateFolderResume(o) ==
  /\ o \in ops /\ o.pc = "reply" /\ o.kind \in {"createFolder", "createFolderStructure"}
  /\ IF o.kind = "createFolder" /\ o.resp = "Ok"
     THEN /\ ops' = (ops \ {o}) \cup
                {[o EXCEPT !.kind = "createFolderStructure", !.pc = "fetch",
                           !.resp = "none", !.data = NoData]}
          /\ UNCHANGED <<folders, notes, isLoading, error>>
     ELSE /\ ops' = ops \ {o}
          /\ setLoading(FALSE)
          /\ error' = CASE o.resp = "Throw" -> "Failed to fetch"
                        [] o.resp = "Status" /\ o.kind = "createFolder" ->
                             "Failed to create folder"
                        [] o.resp = "Status" -> "Failed to get updated structure"
                        [] OTHER -> error
          /\ IF o.kind = "createFolderStructure" /\ o.resp = "Ok"
             THEN /\ folders' = transformedFolders(o.data.folders)
                  /\ notes' = transformedNotes(o.data.notes)
             ELSE UNCHANGED <<folders, notes>>
  /\ UNCHANGED <<currentNote, collaborationInvites, srvVars, pushq, issued>>

\* handleCreateNote (revised FolderView) up to its first await:
\* setError(null), setLoading(true), the CreateNote request on the wire
handleCreateNote ==
  /\ CanIssue
  /\ issued' = issued + 1
  /\ ops' = ops \cup {Op("createNote", Null, Null, "New Drawing", "handleCreateNote", TRUE)}
  /\ error' = NoError
  /\ setLoading(TRUE)
  /\ UNCHANGED <<folders, notes, currentNote, collaborationInvites, srvVars, pushq>>

\* handleCreateNote (FolderView.tsx) up to its first await, with the name the
\* prompt returned
FolderView_handleCreateNote(name) ==
  /\ CanIssue
  /\ issued' = issued + 1
  /\ ops' = ops \cup {Op("createNoteView", Null, Null, name, "handleCreateNote", TRUE)}
  /\ error' = NoError
  /\ setLoading(TRUE)
  /\ UNCHANGED <<folders, notes, currentNote, collaborationInvites, srvVars, pushq>>

\* Both handleCreateNote versions resume after one of their two fetches. After
\* CreateNote a non-success status throws; the revised version requests the
\* structure only for an Ok variant, FolderView.tsx for any success status.
\* After GetStructure an Ok variant is transformed and handed to
\* setStructure. The catch calls setError, the finally setLoading(false).
handleCreateNoteResume(o) ==
  /\ o \in ops /\ o.pc = "reply"
  /\ o.kind \in {"createNote", "createNoteStructure", "createNoteView",
                 "createNoteViewStructure"}
  /\ IF \/ o.kind = "createNote" /\ o.resp = "Ok"
        \/ o.kind = "createNoteView" /\ o.resp \in {"Ok", "Err"}
     THEN /\ ops' = (ops \ {o}) \cup
                {With([o EXCEPT !.kind = IF o.kind = "createNote"
                                         THEN "createNoteStructure"
                                         ELSE "createNoteViewStructure",
                                !.pc = "fetch", !.resp = "none", !.data = NoData],
                      "accepted", o.resp = "Ok")}
          /\ UNCHANGED <<folders, notes, isLoading, error>>
     ELSE /\ ops' = ops \ {o}
          /\ setLoading(FALSE)
          /\ error' = CASE o.resp = "Throw" -> "Failed to fetch"
                        [] o.resp = "Status" /\ o.kind \in {"createNote", "createNoteView"} ->
                             "Failed to create note"
                        [] o.resp = "Status" -> "Failed to get updated structure"
                        [] OTHER -> error
          /\ IF o.kind \in {"createNoteStructure", "createNoteViewStructure"} /\ o.resp = "Ok"
             THEN /\ folders' = transformedFolders(o.data.folders)
                  /\ notes' = transformedNotes(o.data.notes)
             ELSE UNCHANGED <<folders, notes>>
  /\ UNCHANGED <<currentNote, collaborationInvites, srvVars, pushq, issued>>

\* handleCreateFolder (FolderView.tsx) up to its await, with the name the
\* prompt returned: the CreateFolder request on the wire
FolderView_handleCreateFolder(name) ==
  /\ CanIssue
  /\ issued' = issued + 1
  /\ ops' = ops \cup {Op("createFolderView", Null, Null, name, "handleCreateFolder", TRUE)}
  /\ UNCHANGED <<storeVars, srvVars, pushq>>

\* handleCreateFolder (FolderView.tsx) resumes: a rejected fetch or a
\* non-success status makes the promise reject, with nothing to catch it;
\* nothing else follows the fetch
FolderView_handleCreateFolderResume(o) ==
  /\ o \in ops /\ o.pc = "reply" /\ o.kind = "createFolderView"
  /\ ops' = ops \ {o}
  /\ UNCHANGED <<storeVars, srvVars, pushq, issued>>

(* ------------------ remote authority: request handling ----------------- *)
\* the payload of a success response
srvPayload(kind, id) ==
  CASE kind = "GetStructure" -> [folders |-> srvFolders, notes |-> srvNotes]
    [] kind = "AcceptInvite" -> [note |-> ApiNote(id, "a", Null, FALSE, {})]
    [] kind = "GetInvites" -> [invites |-> srvInvites]
    [] kind = "CreateFolder" -> [newId |-> NewFolderId]
    [] kind = "CreateNote" -> [newId |-> NewNoteId]
    [] OTHER -> NoData

\* the payload of a success response that carries the updated note
srvUpdatedNote(ns, id) == [note |-> ns[CHOOSE i \in DOMAIN ns : ns[i].id = id]]

\* The authority answers a request on the wire. outcome "Ok": the request is
\* executed and the new structure is pushed on the channel; "Err": an Err
\* variant with a success status; "Status": an Err variant with a non-success
\* status; "Throw": the transport fails and fetch rejects.
ServerReply(o, outcome) ==
  LET req == Request(o.kind)
      fs == srvApplyFolders(srvFolders, req, o.id, o.arg, o.name)
      ns == IF req = "AcceptInvite"
            THEN Append(srvNotes, srvPayload(req, o.id).note)
            ELSE IF req = "SetNotePublic"
            THEN srvSetNotePublic(srvNotes, o.id, o.flag)
            ELSE srvApplyNotes(srvNotes, req, o.id, o.arg, o.name)
      payload == IF req \in {"SetNotePublic", "InviteCollaborator", "RemoveCollaborator"}
                 THEN srvUpdatedNote(ns, o.id)
                 ELSE srvPayload(req, o.id)
      changed == fs # srvFolders \/ ns # srvNotes
  IN
  /\ o \in ops /\ o.pc = "fetch"
  /\ IF outcome = "Ok"
     THEN /\ srvAccepts(req, o.id, o.arg, o.name)
          /\ srvFolders' = fs
          /\ srvNotes' = ns
          /\ srvInvites' = srvApplyInvites(srvInvites, req, o.id, o.name)
          /\ IF changed
             THEN Len(pushq) < MaxPush /\ pushq' = Append(pushq, StructureMsg(fs, ns))
             ELSE pushq' = pushq
          /\ ops' = (ops \ {o}) \cup
                {[o EXCEPT !.pc = "reply", !.resp = "Ok", !.data = payload]}
     ELSE /\ ops' = (ops \ {o}) \cup {[o EXCEPT !.pc = "reply", !.resp = outcome]}
          /\ UNCHANGED <<srvVars, pushq>>
  /\ UNCHANGED <<storeVars, issued>>

\* another collaborator changes the structure (its own client keeps the
\* structure consistent); the authority pushes the result
OtherWriter(req, id, arg) ==
  LET fs == srvApplyFolders(srvFolders, req, id, arg, "")
      ns == srvApplyNotes(srvNotes, req, id, arg, "")
  IN
  /\ issued < MaxOps
  /\ Len(pushq) < MaxPush
  /\ srvAccepts(req, id, arg, "")
  /\ srvConsistent(fs, ns)
  /\ fs # srvFolders \/ ns # srvNotes
  /\ issued' = issued + 1
  /\ srvFolders' = fs
  /\ srvNotes' = ns
  /\ pushq' = Append(pushq, StructureMsg(fs, ns))
  /\ UNCHANGED <<storeVars, srvInvites, ops>>

\* another collaborator moves a folder, as often as it likes; its own client
\* keeps the structure consistent and the authority pushes the result
OtherMove(id, arg) ==
  LET fs == srvApplyFolders(srvFolders, "MoveFolder", id, arg, "") IN
  /\ Len(pushq) < MaxPush
  /\ srvAccepts("MoveFolder", id, arg, "")
  /\ srvConsistent(fs, srvNotes)
  /\ fs # srvFolders
  /\ srvFolders' = fs
  /\ pushq' = Append(pushq, StructureMsg(fs, srvNotes))
  /\ UNCHANGED <<storeVars, srvNotes, srvInvites, ops, issued>>

\* an authority that refuses, with an Err variant, every request that would
\* leave its structure inconsistent, and executes every other one
StrictReply(o) ==
  LET req == Request(o.kind)
      fs == srvApplyFolders(srvFolders, req, o.id, o.arg, o.name)
      ns == srvApplyNotes(srvNotes, req, o.id, o.arg, o.name)
  IN
  IF srvAccepts(req, o.id, o.arg, o.name) /\ srvConsistent(fs, ns)
  THEN ServerReply(o, "Ok")
  ELSE ServerReply(o, "Err")

\* another collaborator invites this node to the shared note
OtherInvite(inviter) ==
  /\ SharedNoteId \notin Ids(srvNotes)
  /\ \A i \in DOMAIN srvInvites :
       ~(srvInvites[i].note_id = SharedNoteId /\ srvInvites[i].inviter_node_id = inviter)
  /\ srvInvites' = Append(srvInvites, Invite(SharedNoteId, inviter, "a"))
  /\ UNCHANGED <<storeVars, srvFolders, srvNotes, ops, pushq, issued>>

\* messages on the push channel that carry no structure: a GetStructure
\* error and a message under another tag
OtherMsgs == {[tag |-> "GetStructure", variant |-> "Err"], [tag |-> "Other", variant |-> "Ok"]}

\* the authority pushes a message that carries no structure
OtherPush(m) ==
  /\ Len(pushq) < MaxPush
  /\ pushq' = Append(pushq, m)
  /\ UNCHANGED <<storeVars, srvVars, ops, issued>>

(* ------------------------ App.tsx: reconciliation ---------------------- *)
\* a reconciliation that merges the snapshot's folders into the list it holds
setStructureMerging(fs, ns) ==
  /\ folders' = folders \o fs
  /\ notes' = ns
  /\ isLoading' = FALSE

\* setStructure(folders, notes)
setStructure(fs, ns) ==
  /\ folders' = fs
  /\ notes' = ns
  /\ isLoading' = FALSE

\* the initial GetStructure of App resumes
loadResume(o) ==
  /\ o \in ops /\ o.pc = "reply" /\ o.kind = "load"
  /\ ops' = ops \ {o}
  /\ IF o.resp = "Ok"
     THEN setStructure(transformedFolders(o.data.folders), transformedNotes(o.data.notes))
     ELSE UNCHANGED <<folders, notes, isLoading>>
  /\ UNCHANGED <<currentNote, error, collaborationInvites, srvVars, pushq, issued>>

\* a push handler that hands the wire folders on as they come
messageFoldersWire(fs) == fs

\* onMessage: transformedFolders, transformedNotes of the pushed payload
messageFolders(fs) ==
  [i \in DOMAIN fs |-> [id |-> fs[i].id, name |-> fs[i].name, parentId |-> fs[i].parent_id]]

messageNotes(ns) ==
  [i \in DOMAIN ns |->
     [id |-> ns[i].id, name |-> ns[i].name, folderId |-> ns[i].folder_id,
      content |-> ns[i].content, type |-> ns[i].note_type,
      isPublic |-> ns[i].is_public, collaborators |-> ns[i].collaborators]]

\* onMessage of the push channel
onMessage ==
  /\ pushq # <<>>
  /\ pushq' = Tail(pushq)
  /\ IF Head(pushq).tag = "GetStructure" /\ Head(pushq).variant = "Ok"
     THEN setStructure(messageFolders(Head(pushq).folders),
                       messageNotes(Head(pushq).notes))
     ELSE UNCHANGED <<folders, notes, isLoading>>
  /\ UNCHANGED <<currentNote, error, collaborationInvites, srvVars, ops, issued>>

(* ------------------------------- Next ---------------------------------- *)
Outcomes == {"Ok", "Err", "Status", "Throw"}

Targets == FolderIds \cup {Null}

DropFolder == \E id \in FolderIds, t \in Targets : handleDrop("folder", id, t)

DropFolderRev == \E id \in FolderIds, t \in Targets : handleDropRev("folder", id, t)

DropNote == \E id \in NoteIds, t \in Targets : handleDrop("note", id, t)

DropResume == \E o \in ops : handleDropResume(o)

RenameFolder == \E id \in FolderIds : renameFolder(id, "b")

RenameNote == \E id \in NoteIds : renameNote(id, "b")

AcceptInvite == acceptInvite(SharedNoteId, "p")

StoreResume == \E o \in ops : storeResume(o)

DeleteFolder == \E id \in FolderIds : deleteFolder(id)

Reply == \E o \in ops, r \in Outcomes : ServerReply(o, r)

ReplyOk == \E o \in ops : ServerReply(o, "Ok")

ReplyOkOrThrow == \E o \in ops, r \in {"Ok", "Throw"} : ServerReply(o, r)

OtherMoveFolder == \E id \in FolderIds, t \in Targets : OtherWriter("MoveFolder", id, t)

OtherDeleteFolder == \E id \in FolderIds : OtherWriter("DeleteFolder", id, Null)

LoadResume == \E o \in ops : loadResume(o)

OtherDeleteNote == \E id \in NoteIds : OtherWriter("DeleteNote", id, Null)

DeleteNote == \E id \in NoteIds : deleteNote(id)

SetNotePublic == \E id \in NoteIds : setNotePublic(id, TRUE)

InviteCollaborator == \E id \in NoteIds : inviteCollaborator(id, "q")

GetInvites == getInvites

SetCurrentNote == \E id \in NoteIds : setCurrentNote(id)

CreateFolder == handleCreateFolder

RemoveCollaborator == \E id \in NoteIds : removeCollaborator(id, "q")

RejectInvite == \E n \in Nodes : rejectInvite(SharedNoteId, n)

OtherInvites == \E n \in Nodes : OtherInvite(n)

CreateFolderResume == \E o \in ops : handleCreateFolderResume(o)

CreateNote == handleCreateNote

CreateNoteView == \E name \in Names : FolderView_handleCreateNote(name)

CreateNoteResume == \E o \in ops : handleCreateNoteResume(o)

CreateFolderView == \E name \in Names : FolderView_handleCreateFolder(name)

CreateFolderViewResume == \E o \in ops : FolderView_handleCreateFolderResume(o)

\* the folder view's structure operations and acceptInvite, any interleaving the event loop allows
Next ==
  \/ DropFolder
  \/ DropNote
  \/ DropResume
  \/ RenameFolder
  \/ RenameNote
  \/ AcceptInvite
  \/ StoreResume
  \/ DeleteFolder
  \/ Reply
  \/ OtherMoveFolder
  \/ OtherDeleteFolder
  \/ LoadResume
  \/ onMessage

Spec == Init /\ [][Next]_vars

\* One operation at a time: the user starts an operation, and the push channel
\* delivers, only while nothing is in flight.
Idle == ops = {}

SeqDropFolder == Idle /\ DropFolder

SeqDropFolderRev == Idle /\ DropFolderRev

SeqDropNote == Idle /\ DropNote

SeqRenameFolder == Idle /\ RenameFolder

SeqRenameNote == Idle /\ RenameNote

SeqDeleteFolder == Idle /\ DeleteFolder

SeqOnMessage == Idle /\ onMessage

NextSeq ==
  \/ SeqDropFolder
  \/ SeqDropFolderRev
  \/ SeqDropNote
  \/ DropResume
  \/ SeqRenameFolder
  \/ SeqRenameNote
  \/ StoreResume
  \/ SeqDeleteFolder
  \/ Reply
  \/ LoadResume
  \/ SeqOnMessage

SpecSeq == Init /\ [][NextSeq]_vars

\* folder moves only, one at a time, each acknowledged by the authority
NextMoves ==
  \/ SeqDropFolder
  \/ SeqDropFolderRev
  \/ DropResume
  \/ StoreResume
  \/ ReplyOk
  \/ LoadResume
  \/ SeqOnMessage

SpecMoves == Init /\ [][NextMoves]_vars

\* renames and moves, one at a time, each either acknowledged or lost in transport
NextRollback ==
  \/ SeqDropFolder
  \/ SeqDropNote
  \/ DropResume
  \/ SeqRenameFolder
  \/ SeqRenameNote
  \/ StoreResume
  \/ ReplyOkOrThrow
  \/ LoadResume
  \/ SeqOnMessage

SpecRollback == Init /\ [][NextRollback]_vars

\* renames and moves racing with other collaborators' changes and with pushes;
\* every request is acknowledged
NextRace ==
  \/ DropFolder
  \/ DropNote
  \/ DropResume
  \/ RenameFolder
  \/ StoreResume
  \/ ReplyOk
  \/ OtherMoveFolder
  \/ OtherDeleteFolder
  \/ LoadResume
  \/ onMessage

SpecRace == Init /\ [][NextRace]_vars

SeqRemoveCollaborator == Idle /\ RemoveCollaborator

SeqRejectInvite == Idle /\ RejectInvite

SeqDeleteNote == Idle /\ DeleteNote

SeqSetNotePublic == Idle /\ SetNotePublic

SeqInviteCollaborator == Idle /\ InviteCollaborator

SeqGetInvites == Idle /\ GetInvites

SeqAcceptInvite == Idle /\ AcceptInvite

\* one local operation at a time, racing with other collaborators' deletions
\* and with the pushes that reconcile the store
NextReconcile ==
  \/ SeqRenameFolder
  \/ SeqRenameNote
  \/ SeqDropNote
  \/ SeqDeleteNote
  \/ SeqSetNotePublic
  \/ SeqInviteCollaborator
  \/ DropResume
  \/ StoreResume
  \/ ReplyOk
  \/ OtherDeleteFolder
  \/ OtherDeleteNote
  \/ LoadResume
  \/ onMessage

SpecReconcile == Init /\ [][NextReconcile]_vars

\* sharing, deletion and invites, one operation at a time, any response
NextShare ==
  \/ SeqSetNotePublic
  \/ SeqInviteCollaborator
  \/ SeqRemoveCollaborator
  \/ SeqDeleteNote
  \/ SeqGetInvites
  \/ StoreResume
  \/ Reply
  \/ LoadResume
  \/ SeqOnMessage

SpecShare == Init /\ [][NextShare]_vars

\* the open note: selection, then an acknowledged delete or rename
NextSelection ==
  \/ SetCurrentNote
  \/ SeqDeleteNote
  \/ SeqRenameNote
  \/ StoreResume
  \/ ReplyOk
  \/ LoadResume
  \/ SeqOnMessage

SpecSelection == Init /\ [][NextSelection]_vars

\* operations that raise the loading flag, any interleaving, any response
NextLoading ==
  \/ DeleteNote
  \/ GetInvites
  \/ CreateFolder
  \/ CreateFolderResume
  \/ StoreResume
  \/ Reply
  \/ LoadResume
  \/ onMessage

SpecLoading == Init /\ [][NextLoading]_vars

\* invites: fetching them and accepting one, any interleaving with the
\* responses and with the pushes
NextInvite ==
  \/ GetInvites
  \/ AcceptInvite
  \/ StoreResume
  \/ Reply
  \/ LoadResume
  \/ onMessage

SpecInvite == Init /\ [][NextInvite]_vars

\* several collaborators invite this node; the invites are fetched, then one
\* is accepted or rejected; every request is acknowledged
NextInviteFrame ==
  \/ OtherInvites
  \/ SeqGetInvites
  \/ SeqAcceptInvite
  \/ SeqRejectInvite
  \/ StoreResume
  \/ ReplyOk
  \/ LoadResume
  \/ SeqOnMessage

SpecInviteFrame == Init /\ [][NextInviteFrame]_vars

(* ============================== properties ============================= *)
\* following parent-id from id reaches null within n steps
RECURSIVE ReachesNull(_, _, _)
ReachesNull(fs, id, n) ==
  IF id = Null THEN TRUE
  ELSE IF n = 0 THEN FALSE
  ELSE LET i == FirstIndex(fs, LAMBDA f : f.id = id) IN
       IF i = 0 THEN FALSE ELSE ReachesNull(fs, fs[i].parentId, n - 1)

\* the folders reachable from id by following parent-id one or more times
RECURSIVE AncestorsOf(_, _, _)
AncestorsOf(fs, id, n) ==
  LET ps == {fs[i].parentId : i \in {j \in DOMAIN fs : fs[j].id = id}} \ {Null} IN
  IF n = 0 THEN {} ELSE ps \cup UNION {AncestorsOf(fs, p, n - 1) : p \in ps}

\* t is a proper descendant of id
ProperDescendant(fs, t, id) == t # id /\ id \in AncestorsOf(fs, t, Len(fs))

\* C1: after any sequence of successfully completed folder moves, following
\* parent-id from any folder of the store reaches null in at most |folders| steps.
C1_NoCycle ==
  \A i \in DOMAIN folders : ReachesNull(folders, folders[i].id, Len(folders))

\* C2: a folder drop whose target is a proper descendant of the dragged folder
\* is rejected locally: no request is put on the wire, folders and notes are
\* unchanged, and the store's error is set.
C2_DescendantDropRejected ==
  [][\A id \in FolderIds, t \in FolderIds :
       (/\ ProperDescendant(folders, t, id)
        /\ (handleDrop("folder", id, t) \/ handleDropRev("folder", id, t)))
       => (ops' = ops /\ folders' = folders /\ notes' = notes /\ error' # NoError)]_vars

\* a drop onto a descendant has just been refused: the message is on display,
\* nothing is in flight, and the store holds a folder below another one
C2_Witness ==
  /\ error = "Cannot move a folder into itself or its children"
  /\ ops = {}
  /\ \E i, j \in DOMAIN folders : ProperDescendant(folders, folders[i].id, folders[j].id)

\* C3: a folder drop onto the dragged folder itself is rejected locally without
\* contacting the server, and no folder ever has parent-id equal to its own id.
C3_SelfDropRejected ==
  /\ [][\A id \in FolderIds :
          (handleDrop("folder", id, id) \/ handleDropRev("folder", id, id))
          => (ops' = ops /\ error' # NoError)]_vars
  /\ [](\A i \in DOMAIN folders : folders[i].parentId # folders[i].id)

RenameOrMove == {"moveFolder", "moveNote", "renameFolder", "renameNote"}

\* C4: a rename or move changes the local name / parent-id / folder-id only
\* when the remote authority acknowledged the request as a success; on an Err
\* variant or a non-success status the targeted entity keeps its value.
C4_AppliedOnlyOnSuccess ==
  [][\A o \in ops :
       (o.kind \in RenameOrMove /\ o.resp # "Ok" /\ storeResume(o))
       => /\ \A i \in DOMAIN folders : folders[i].id = o.id => folders'[i] = folders[i]
          /\ \A i \in DOMAIN notes : notes[i].id = o.id => notes'[i] = notes[i]]_vars

\* C5: when the network call of renameFolder, renameNote, moveFolder or
\* moveNote throws, the operation leaves folders and notes as they were before
\* the call (neither its first part nor its continuation changes them) and the
\* store's error is non-null afterwards.
C5_RollbackOnThrow ==
  [][/\ (SeqRenameFolder \/ SeqRenameNote \/ DropResume)
        => (folders' = folders /\ notes' = notes)
     /\ \A o \in ops :
          (o.kind \in RenameOrMove /\ o.resp = "Throw" /\ storeResume(o))
          => (folders' = folders /\ notes' = notes /\ error' # NoError)]_vars

\* a renameFolder has just failed in transport: its error is on display, nothing
\* is in flight, and every folder still carries its name
C5_Witness ==
  /\ error = "Failed to rename folder"
  /\ ops = {}
  /\ ~isLoading
  /\ folders # <<>>
  /\ \A i \in DOMAIN folders : folders[i].name = "a"

\* C6: deleteFolder(F) removes F from the store and gives every note that had
\* folder-id = F the folder-id null, its other fields unchanged; no note still
\* references F.
C6_DeleteFolderOrphansNotes ==
  [][\A F \in FolderIds :
       deleteFolder(F)
       => /\ F \notin Ids(folders')
          /\ Len(notes') = Len(notes)
          /\ \A i \in DOMAIN notes :
               notes'[i] = IF Get(notes[i], "folderId") = F
                           THEN With(notes[i], "folderId", Null) ELSE notes[i]
          /\ \A i \in DOMAIN notes' : Get(notes'[i], "folderId") # F]_vars

\* C7: after deleteFolder(F) no remaining folder has parent-id = F, and every
\* remaining folder's parent-id is null or the id of an existing folder.
C7_DeleteFolderDetachesChildren ==
  [][\A F \in FolderIds :
       deleteFolder(F)
       => \A i \in DOMAIN folders' :
            /\ folders'[i].parentId # F
            /\ folders'[i].parentId \in {Null} \cup Ids(folders')]_vars

\* C8: in every reachable store state each note's folder-id is null or the id
\* of a folder currently in the store.
C8_NoteFolderExists ==
  \A i \in DOMAIN notes : Get(notes[i], "folderId") \in {Null} \cup Ids(folders)

\* C9: in every reachable store state no two folders share an id and no two
\* notes share an id.
C9_UniqueIds ==
  /\ \A i, j \in DOMAIN folders : folders[i].id = folders[j].id => i = j
  /\ \A i, j \in DOMAIN notes : notes[i].id = notes[j].id => i = j

\* nothing in flight and nothing left on the push channel
Quiescent == ops = {} /\ pushq = <<>>

StoreEqualsServer ==
  /\ Len(folders) = Len(srvFolders)
  /\ Len(notes) = Len(srvNotes)
  /\ Range(folders) = Range(transformedFolders(srvFolders))
  /\ Range(notes) = Range(transformedNotes(srvNotes))

\* C10: once every response has been processed and every push delivered, the
\* store's folders and notes equal the remote authority's structure.
C10_NoStaleOverwrite == Quiescent => StoreEqualsServer

FolderOps == {"moveFolder", "renameFolder"}

NoteOps == {"moveNote", "renameNote", "deleteNote", "setNotePublic", "inviteCollaborator"}

\* the field a rename or move writes
TargetField(kind) ==
  CASE kind = "moveFolder" -> "parentId"
    [] kind = "moveNote" -> "folderId"
    [] OTHER -> "name"

\* e2 is e with the one field set to v and every other field as in e
OnlyFieldSet(e, e2, k, v) ==
  /\ Get(e2, k) = v
  /\ DOMAIN e2 = (DOMAIN e) \cup {k}
  /\ \A x \in (DOMAIN e) \ {k} : e2[x] = e[x]

\* C11: when a rename or move applies its change to the store (in particular
\* to a snapshot a reconciliation installed after the request was sent), the
\* targeted entity, if present, carries the requested name / parent-id /
\* folder-id and every other entity is exactly as the store held it.
C11_ApplyAfterReconcile ==
  [][\A o \in ops :
       (o.kind \in RenameOrMove /\ o.resp # "Throw" /\ storeResume(o))
       => /\ Len(folders') = Len(folders)
          /\ Len(notes') = Len(notes)
          /\ \A i \in DOMAIN folders :
               IF o.kind \in FolderOps /\ folders[i].id = o.id
               THEN OnlyFieldSet(folders[i], folders'[i], TargetField(o.kind),
                                 IF o.kind = "moveFolder" THEN o.arg ELSE o.name)
               ELSE folders'[i] = folders[i]
          /\ \A i \in DOMAIN notes :
               IF o.kind \in NoteOps /\ notes[i].id = o.id
               THEN OnlyFieldSet(notes[i], notes'[i], TargetField(o.kind),
                                 IF o.kind = "moveNote" THEN o.arg ELSE o.name)
               ELSE notes'[i] = notes[i]]_vars

\* the only operation issued so far is a renameFolder whose response is ready,
\* and the store already shows the new name: the push that followed the
\* request has been reconciled before the operation's apply step
C11_Witness ==
  /\ issued = 1
  /\ pushq = <<>>
  /\ \E o \in ops :
       /\ o.kind = "renameFolder" /\ o.pc = "reply" /\ o.resp = "Ok"
       /\ \E i \in DOMAIN folders : folders[i].id = o.id /\ folders[i].name = o.name

\* C12: when the entity an in-flight rename, move, delete or
\* visibility/collaborator change targets is no longer in the store at the
\* apply step, that step leaves folders and notes unchanged.
C12_ApplyOnRemovedEntity ==
  [][\A o \in ops :
       (/\ storeResume(o)
        /\ \/ o.kind \in FolderOps /\ o.id \notin Ids(folders)
           \/ o.kind \in NoteOps /\ o.id \notin Ids(notes))
       => (folders' = folders /\ notes' = notes)]_vars

\* a renameNote was acknowledged, and the note it targets has since been
\* removed from the (loaded) store by a reconciliation
C12_Witness ==
  /\ folders # <<>>
  /\ \E o \in ops :
       /\ o.kind = "renameNote" /\ o.pc = "reply" /\ o.resp = "Ok"
       /\ o.id \notin Ids(notes)

\* fs, ns is the translation of the wire snapshot F, N
IsTranslation(fs, ns, F, N) ==
  /\ Len(fs) = Len(F)
  /\ Len(ns) = Len(N)
  /\ \A i \in DOMAIN F :
       /\ DOMAIN fs[i] = {"id", "name", "parentId"}
       /\ fs[i].id = F[i].id /\ fs[i].name = F[i].name /\ fs[i].parentId = F[i].parent_id
  /\ \A i \in DOMAIN N :
       /\ DOMAIN ns[i] = {"id", "name", "folderId", "content", "type", "isPublic",
                          "collaborators"}
       /\ ns[i].id = N[i].id /\ ns[i].name = N[i].name
       /\ ns[i].folderId = N[i].folder_id /\ ns[i].content = N[i].content
       /\ ns[i].type = N[i].note_type /\ ns[i].isPublic = N[i].is_public
       /\ ns[i].collaborators = N[i].collaborators

\* C13: after a snapshot (F, N) is applied, by the initial load or by a push,
\* the store's folders and notes are exactly the translation of F and N,
\* whatever the store held before.
C13_TotalReplacement ==
  [][/\ (onMessage /\ Head(pushq).tag = "GetStructure" /\ Head(pushq).variant = "Ok")
        => IsTranslation(folders', notes', Head(pushq).folders, Head(pushq).notes)
     /\ \A o \in ops :
          (loadResume(o) /\ o.resp = "Ok")
          => IsTranslation(folders', notes', o.data.folders, o.data.notes)]_vars

\* the loaded store has lost a folder and a note it used to show: both are
\* absent from the snapshot that replaced it
C13_Witness ==
  /\ ops = {} /\ pushq = <<>>
  /\ folders # <<>>
  /\ Len(folders) < NumFolders
  /\ Len(notes) < NumNotes
  /\ IsTranslation(folders, notes, srvFolders, srvNotes)

\* C14: applying a snapshot payload to a store that is already the result of
\* applying that payload leaves every store field as it is.
C14_IdempotentReconcile ==
  [][/\ (/\ onMessage /\ Head(pushq).tag = "GetStructure" /\ Head(pushq).variant = "Ok"
         /\ folders = transformedFolders(Head(pushq).folders)
         /\ notes = transformedNotes(Head(pushq).notes)
         /\ ~isLoading)
        => storeVars' = storeVars
     /\ \A o \in ops :
          (/\ loadResume(o) /\ o.resp = "Ok"
           /\ folders = transformedFolders(o.data.folders)
           /\ notes = transformedNotes(o.data.notes)
           /\ ~isLoading)
          => storeVars' = storeVars]_vars

\* the push with a snapshot has been applied, and the initial load's response
\* carrying the same snapshot is about to be applied on top of it
C14_Witness ==
  /\ folders # <<>>
  /\ \E o \in ops :
       /\ o.kind = "load" /\ o.pc = "reply" /\ o.resp = "Ok"
       /\ folders = transformedFolders(o.data.folders)
       /\ notes = transformedNotes(o.data.notes)

\* C15: setNotePublic(id, flag) sets the note's isPublic to flag, and nothing
\* else, when the response is the success variant; on any other response that
\* does not throw ({Err: ...}, with or without a success status) every field
\* of every note is unchanged.
C15_PublicOnlyOnOk ==
  [][\A o \in ops :
       (o.kind = "setNotePublic" /\ storeResume(o))
       => IF o.resp = "Ok"
          THEN /\ Len(notes') = Len(notes)
               /\ \A i \in DOMAIN notes :
                    IF notes[i].id = o.id
                    THEN OnlyFieldSet(notes[i], notes'[i], "isPublic", o.flag)
                    ELSE notes'[i] = notes[i]
          ELSE notes' = notes]_vars

\* a setNotePublic(id, true) was answered {Err: ...} and is about to resume;
\* the note it targets is in the store and is not public
C15_Witness ==
  \E o \in ops :
    /\ o.kind = "setNotePublic" /\ o.pc = "reply" /\ o.resp = "Err" /\ o.flag
    /\ \E i \in DOMAIN notes : notes[i].id = o.id /\ ~notes[i].isPublic

\* C16: a store operation that ends in a failure (transport failure, or a
\* response carrying an error variant, with or without a success status)
\* leaves the store's error non-null when it completes.
C16_FailureSetsError ==
  [][\A o \in ops :
       (storeResume(o) /\ o.resp \in {"Err", "Status", "Throw"})
       => error' # NoError]_vars

\* C17: an operation that raised the loading flag lowers it in the step that
\* completes it, whatever the response; when nothing is in flight isLoading
\* is false.
C17_LoadingCleared ==
  /\ [][\A o \in ops :
          ((storeResume(o) \/ handleCreateFolderResume(o)) /\ o \notin ops'
           /\ \A q \in ops' : q \in ops)
          => ~isLoading']_vars
  /\ [](ops = {} => ~isLoading)

\* a deleteNote failed in transport and has completed: its error is shown,
\* nothing is in flight and the flag is down
C17_Witness ==
  /\ error = "Failed to delete note"
  /\ ops = {}
  /\ issued > 0
  /\ ~isLoading

\* C18: when deleteNote(id) succeeds and the open note has that id,
\* currentNote becomes undefined.
C18_DeleteClearsSelection ==
  [][\A o \in ops :
       (/\ o.kind = "deleteNote" /\ o.resp = "Ok" /\ storeResume(o)
        /\ currentNote # <<>> /\ currentNote[1].id = o.id)
       => currentNote' = <<>>]_vars

\* C19: when renameNote(id, name) succeeds and the open note has that id,
\* currentNote keeps its id and takes the name; currentNote's name always
\* equals the name of the store note with the same id.
C19_RenameUpdatesSelection ==
  /\ [][\A o \in ops :
          (/\ o.kind = "renameNote" /\ o.resp = "Ok" /\ storeResume(o)
           /\ currentNote # <<>> /\ currentNote[1].id = o.id)
          => (/\ currentNote' # <<>>
              /\ currentNote'[1].id = o.id
              /\ currentNote'[1].name = o.name)]_vars
  /\ [](currentNote # <<>>
        => \A i \in DOMAIN notes :
             notes[i].id = currentNote[1].id => notes[i].name = currentNote[1].name)

NoteInStore(noteId) == noteId \in Ids(notes)

InvitePending(noteId) ==
  \E i \in DOMAIN collaborationInvites : collaborationInvites[i].note_id = noteId

C21_InviteFrame ==
  [][\A o \in ops :
       (/\ o.kind \in {"acceptInvite", "rejectInvite"} /\ o.resp = "Ok"
        /\ storeResume(o))
       => /\ \A v \in Range(collaborationInvites') :
               ~(v.note_id = o.id /\ v.inviter_node_id = o.name)
          /\ \A v \in Range(collaborationInvites) :
               ~(v.note_id = o.id /\ v.inviter_node_id = o.name)
               => v \in Range(collaborationInvites')]_vars

OtherPushes == \E m \in OtherMsgs : OtherPush(m)

\* the push channel: structure pushes caused by other collaborators and by
\* this client's own renames, and messages without a structure
NextPush ==
  \/ SeqRenameFolder
  \/ SeqDeleteNote
  \/ StoreResume
  \/ ReplyOk
  \/ OtherDeleteFolder
  \/ OtherDeleteNote
  \/ OtherPushes
  \/ LoadResume
  \/ onMessage

SpecPush == Init /\ [][NextPush]_vars

\* C27: a push message that carries a GetStructure success payload leaves
\* folders and notes as the initial load leaves them with that payload; any
\* other message (a GetStructure error, another tag) leaves both unchanged.
C27_PushReplaces ==
  [][onMessage
     => IF Head(pushq).tag = "GetStructure" /\ Head(pushq).variant = "Ok"
        THEN /\ folders' = transformedFolders(Head(pushq).folders)
             /\ notes' = transformedNotes(Head(pushq).notes)
        ELSE folders' = folders /\ notes' = notes]_vars

\* a structure push has replaced a store that a message without a structure
\* had left alone: the store follows the authority after a folder was deleted
\* there, and a message without a structure is waiting
C27_Witness ==
  /\ ops = {}
  /\ pushq # <<>>
  /\ Head(pushq) \in OtherMsgs
  /\ folders # <<>>
  /\ Len(folders) < NumFolders
  /\ folders = transformedFolders(srvFolders)

\* no folder of fs is its own ancestor
Acyclic(fs) == \A i \in DOMAIN fs : fs[i].id \notin AncestorsOf(fs, fs[i].id, Len(fs))

\* folder drops in any interleaving, every request acknowledged
NextConcurrentMoves ==
  \/ DropFolderRev
  \/ DropResume
  \/ StoreResume
  \/ ReplyOk
  \/ LoadResume
  \/ onMessage

SpecConcurrentMoves == Init /\ [][NextConcurrentMoves]_vars

\* C28: with folder moves in flight at the same time, each of which passed the
\* local descendant check and was acknowledged, applying a move to a store
\* without a cycle leaves the store without a cycle.
C28_ConcurrentMovesNoCycle ==
  [][\A o \in ops :
       (/\ o.kind = "moveFolder" /\ o.resp = "Ok" /\ o.found
        /\ storeResume(o)
        /\ Acyclic(folders))
       => Acyclic(folders')]_vars

OtherMoves == \E id \in FolderIds, t \in Targets : OtherMove(id, t)

StrictReplies == \E o \in ops : StrictReply(o)

\* one folder drop at a time against an authority whose structure is always
\* acyclic, while other collaborators move folders and pushes are delivered
NextStaleMove ==
  \/ SeqDropFolderRev
  \/ DropResume
  \/ StoreResume
  \/ StrictReplies
  \/ OtherMoves
  \/ LoadResume
  \/ onMessage

SpecStaleMove == Init /\ [][NextStaleMove]_vars

SeqCreateFolder == Idle /\ CreateFolder

SeqCreateNote == Idle /\ CreateNote

SeqCreateNoteView == Idle /\ CreateNoteView

SeqCreateFolderView == Idle /\ CreateFolderView

\* the create handlers one at a time, any response to each request
NextCreate ==
  \/ SeqCreateFolder
  \/ SeqCreateFolderView
  \/ SeqCreateNote
  \/ SeqCreateNoteView
  \/ CreateFolderResume
  \/ CreateFolderViewResume
  \/ CreateNoteResume
  \/ Reply
  \/ LoadResume
  \/ SeqOnMessage

SpecCreate == Init /\ [][NextCreate]_vars

\* a create handler runs its last step with o
CreateEnds(o) ==
  /\ \/ handleCreateFolderResume(o)
     \/ handleCreateNoteResume(o)
     \/ FolderView_handleCreateFolderResume(o)
  /\ ops' = ops \ {o}

\* the authority accepted the creation that o's handler asked for
CreateAccepted(o) ==
  CASE o.kind \in {"createFolderView", "createFolder", "createNote", "createNoteView"} ->
         o.resp = "Ok"
    [] o.kind \in {"createFolderStructure", "createNoteStructure"} -> TRUE
    [] OTHER -> o.accepted

\* C24: when a create handler whose creation the authority accepted
\* completes, the store holds the new entity: the id the authority assigned,
\* the requested name, no parent.
C24_CreateRefetches ==
  [][\A o \in ops :
       (CreateEnds(o) /\ CreateAccepted(o))
       => IF o.kind \in {"createFolderView", "createFolder", "createFolderStructure"}
          THEN TlDrawFolder(NewFolderId, o.name, Null) \in Range(folders')
          ELSE \E n \in Range(notes') :
                 n.id = NewNoteId /\ n.name = o.name /\ n.folderId = Null]_vars

\* C25: a create handler whose create request fails (rejected fetch,
\* non-success status, Err variant) leaves folders and notes as they were
\* and sets error.
C25_CreateFailure ==
  [][\A o \in ops :
       (/\ o.kind \in {"createFolderView", "createFolder", "createNote", "createNoteView"}
        /\ o.resp \in {"Throw", "Status", "Err"}
        /\ \/ handleCreateFolderResume(o)
           \/ handleCreateNoteResume(o)
           \/ FolderView_handleCreateFolderResume(o))
       => /\ folders' = folders
          /\ notes' = notes
          /\ error' # NoError]_vars

\* C23: deleteFolder(F) removes F from the store only as the continuation of
\* a DeleteFolder request for F that the remote authority acknowledged, so
\* the authority no longer holds F when the store drops it.
C23_DeleteFolderViaServer ==
  [][\A F \in FolderIds :
       deleteFolder(F)
       => /\ \E o \in ops :
               /\ Request(o.kind) = "DeleteFolder" /\ o.id = F
               /\ o.pc = "reply" /\ o.resp = "Ok"
          /\ F \notin Ids(srvFolders')]_vars

srvNote(id) == srvNotes[CHOOSE i \in DOMAIN srvNotes : srvNotes[i].id = id]

\* C30: after a successful inviteCollaborator, removeCollaborator,
\* setNotePublic or acceptInvite the stored note is in the internal shape:
\* its folder-id, type and isPublic equal the server note's folder_id,
\* note_type and is_public, and getChildNotes returns it for its folder.
C30_InternalShape ==
  [][\A o \in ops :
       (/\ o.kind \in {"inviteCollaborator", "removeCollaborator", "setNotePublic",
                       "acceptInvite"}
        /\ o.resp = "Ok" /\ storeResume(o) /\ o.id \in Ids(srvNotes))
       => \A n \in Range(notes') :
            n.id = o.id
            => /\ {"folderId", "type", "isPublic"} \subseteq DOMAIN n
               /\ n.folderId = srvNote(o.id).folder_id
               /\ n.type = srvNote(o.id).note_type
               /\ n.isPublic = srvNote(o.id).is_public
               /\ n \in Range(getChildNotes(notes', srvNote(o.id).folder_id))]_vars

RenameFolderTo == \E id \in FolderIds, name \in Names : renameFolder(id, name)

RenameNoteTo == \E id \in NoteIds, name \in Names : renameNote(id, name)

\* renames in any interleaving with their responses and with the pushes;
\* every request is acknowledged
NextSupersede ==
  \/ RenameFolderTo
  \/ RenameNoteTo
  \/ StoreResume
  \/ ReplyOk
  \/ LoadResume
  \/ onMessage

SpecSupersede == Init /\ [][NextSupersede]_vars

\* the user renames folder 1 again and again, to "b" and to "a" in turn, so
\* that the name the latest rename asked for can be read off the count
renameFolderInTurn == renameFolder(1, IF issued % 2 = 0 THEN "b" ELSE "a")

\* the name the latest of the issued renames asked for
LastRenameName == IF issued % 2 = 1 THEN "b" ELSE "a"

\* the authority answers the requests in the order they were sent
ReplyInOrder ==
  \E o \in ops :
    /\ \A q \in ops : q.pc = "fetch" => o.seq <= q.seq
    /\ ServerReply(o, "Ok")

\* renames of one folder, overlapping; the authority acknowledges them in the
\* order they were issued, the responses are processed in any order
NextRenameOrder ==
  \/ renameFolderInTurn
  \/ StoreResume
  \/ ReplyInOrder
  \/ LoadResume
  \/ onMessage

SpecRenameOrder == Init /\ [][NextRenameOrder]_vars

\* C31: when two renames of a folder are issued r1 then r2 and both are
\* acknowledged, the folder's local name is r2's once both responses have been
\* processed (and no push is left), in whatever order the responses arrive.
C31_LastRenameWins ==
  (ops = {} /\ pushq = <<>> /\ issued >= 2)
  => \A i \in DOMAIN folders : folders[i].id = 1 => folders[i].name = LastRenameName

\* the kinds of the store's asynchronous operations
StoreOpKinds ==
  {"moveFolder", "moveNote", "renameFolder", "renameNote", "acceptInvite", "deleteNote",
   "setNotePublic", "inviteCollaborator", "getInvites", "rejectInvite", "removeCollaborator"}

\* C32: isLoading is true in every state in which a store operation has sent
\* its request and not yet processed the response; neither another
\* operation's completion nor a reconciliation lowers it early.
C32_LoadingWhileInFlight ==
  (\E o \in ops : o.kind \in StoreOpKinds) => isLoading

\* C33: whenever currentNote is defined, a note with the same id is in the
\* store's notes, also after deleteNote and after a reconciliation whose
\* snapshot omits the open note.
C33_SelectionInStore ==
  currentNote # <<>> => \E i \in DOMAIN notes : notes[i].id = currentNote[1].id

RenameSharedNote == \E name \in Names : renameNote(SharedNoteId, name)

SeqRenameSharedNote == Idle /\ RenameSharedNote

\* renames and moves one at a time, on a store that also takes in a shared
\* note through acceptInvite while pushes are delivered
NextFrame ==
  \/ SeqAcceptInvite
  \/ SeqRenameSharedNote
  \/ SeqRenameFolder
  \/ SeqRenameNote
  \/ SeqDropNote
  \/ SeqDropFolderRev
  \/ DropResume
  \/ StoreResume
  \/ ReplyOk
  \/ LoadResume
  \/ onMessage

SpecFrame == Init /\ [][NextFrame]_vars

C35_WalkTerminates ==
  \A id \in FolderIds, t \in FolderIds :
    isFolderDescendant(folders, id, t) \in {"true", "false"}

\* C36: one drop puts exactly one Move request on the wire: when the
\* handler resumes after its request was answered, no further request is
\* sent, and the store is changed only by the continuation of an
\* acknowledged request.
C36_OneRequestPerDrop ==
  [][/\ \A o \in ops :
          handleDropResume(o) => \A q \in ops' : q \in ops \/ q.pc # "fetch"
     /\ \A o \in ops :
          (o.kind \in {"moveFolder", "moveNote"} /\ storeResume(o)
           /\ (folders' # folders \/ notes' # notes))
          => o.resp = "Ok"]_vars

\* drops and acceptInvite one at a time, each acknowledged and its push
\* delivered before the next: the stores the child queries are asked on
NextQueries ==
  \/ SeqDropNote
  \/ SeqDropFolderRev
  \/ SeqAcceptInvite
  \/ DropResume
  \/ StoreResume
  \/ ReplyOk
  \/ LoadResume
  \/ SeqOnMessage

SpecQueries == Init /\ [][NextQueries]_vars

\* every parent-id and folder-id of the store is null or the id of a stored folder
ReferencesResolve ==
  /\ \A i \in DOMAIN folders : folders[i].parentId \in {Null} \cup Ids(folders)
  /\ \A i \in DOMAIN notes :
       /\ "folderId" \in DOMAIN notes[i]
       /\ notes[i].folderId \in {Null} \cup Ids(folders)

\* C37: getChildFolders(p) returns, in store order, exactly the folders whose
\* parent-id is p, and getChildNotes(f) exactly the notes whose folder-id is
\* f; when every reference is null or a stored folder's id, each folder and
\* each note is returned by exactly one query over null and the stored ids.
C37_ChildQueries ==
  /\ \A p \in Targets :
       /\ Range(getChildFolders(folders, p)) =
            {folders[i] : i \in {j \in DOMAIN folders : folders[j].parentId = p}}
       /\ Len(getChildFolders(folders, p)) =
            Cardinality({j \in DOMAIN folders : folders[j].parentId = p})
       /\ \A n \in Range(getChildNotes(notes, p)) :
            n \in Range(notes) /\ "folderId" \in DOMAIN n /\ n.folderId = p
       /\ Len(getChildNotes(notes, p)) =
            Cardinality({j \in DOMAIN notes :
                           "folderId" \in DOMAIN notes[j] /\ notes[j].folderId = p})
  /\ ReferencesResolve
     => /\ \A i \in DOMAIN folders :
             Cardinality({p \in {Null} \cup Ids(folders) :
                            folders[i] \in Range(getChildFolders(folders, p))}) = 1
        /\ \A i \in DOMAIN notes :
             Cardinality({p \in {Null} \cup Ids(folders) :
                            notes[i] \in Range(getChildNotes(notes, p))}) = 1

\* a loaded store in which every reference resolves, with a folder below
\* another folder and a note inside a folder, after a drop
C37_Witness ==
  /\ ReferencesResolve
  /\ ops = {}
  /\ issued > 0
  /\ Len(getChildFolders(folders, Null)) \in 1..(Len(folders) - 1)
  /\ \E p \in Ids(folders) : Len(getChildNotes(notes, p)) >= 1

====
